---- MODULE Spec2Model ----
(***************************************************************************)
(* Model of the route table of src/app/routes.js: the Router's stack of    *)
(* layers (method, path pattern, ordered middleware chain), the dispatch   *)
(* of one request through the first matching layer, and the terminal error *)
(* handler registered after every route.  The middleware and controllers   *)
(* imported by routes.js are modelled from their documented contracts.     *)
(***************************************************************************)
EXTENDS Integers, Sequences, FiniteSets, TLC

\* ------------------------------------------------------------------ bounds
MaxTime == 2
MaxPosts == 1
MaxTokens == 1

\* ------------------------------------------------------- domain of inputs
Usernames == {"me", "ann"}
Roles == {"user", "admin"}
PostIds == {ToString(n) : n \in 1..MaxPosts}
NoOne == ""
NoErr == ""
NoRes == 0
InvalidToken == "InvalidToken"

\* ------------------------------------------------------------ Token Codec
TokenTTL == 1
sessionSecret == "secret"
NoToken == [kind |-> "none", sub |-> NoOne, exp |-> 0, key |-> ""]
Malformed == [kind |-> "malformed", sub |-> NoOne, exp |-> 0, key |-> ""]
Forged(u) == [kind |-> "jwt", sub |-> u, exp |-> MaxTime + TokenTTL + 1, key |-> "attacker"]

issue(id, t) == [kind |-> "jwt", sub |-> id, exp |-> t + TokenTTL, key |-> sessionSecret]

verify(token, t) ==
    IF token.kind = "jwt" /\ token.key = sessionSecret /\ t < token.exp
    THEN token.sub
    ELSE InvalidToken

\* ------------------------------------------------------------ route table
MW(fn) == [fn |-> fn, arg |-> ""]
authenticate == MW("authenticate")
accessControl(role) == [fn |-> "accessControl", arg |-> role]
errorHandler == MW("errorHandler")
MetaController_index == MW("MetaController.index")
AuthController_login == MW("AuthController.login")
UsersController_findAll == MW("UsersController.findAll")
UsersController_create == MW("UsersController.create")
UsersController_fetch == MW("UsersController.fetch")
UsersController_update == MW("UsersController.update")
UsersController_delete == MW("UsersController.delete")
UsersController_populate == MW("UsersController._populate")
PostsController_search == MW("PostsController.search")
PostsController_create == MW("PostsController.create")
PostsController_fetch == MW("PostsController.fetch")
PostsController_delete == MW("PostsController.delete")
PostsController_populate == MW("PostsController._populate")

Route(method, path, chain) == [kind |-> "route", method |-> method, path |-> path, chain |-> chain]
Use(mw) == [kind |-> "error", method |-> "*", path |-> <<>>, chain |-> <<mw>>]

route_index == Route("GET", <<>>, <<MetaController_index>>)
route_auth_login == Route("POST", <<"auth", "login">>, <<AuthController_login>>)
route_users_findAll == Route("GET", <<"users">>, <<UsersController_findAll>>)
\* variant: user creation left open
route_users_create_open == Route("POST", <<"users">>, <<UsersController_create>>)
route_users_create == Route("POST", <<"users">>, <<authenticate, UsersController_create>>)
route_users_me_fetch == Route("GET", <<"users", "me">>, <<authenticate, UsersController_fetch>>)
\* variant: update of the current user without the token gate
route_users_me_update_open == Route("PUT", <<"users", "me">>, <<UsersController_update>>)
route_users_me_update == Route("PUT", <<"users", "me">>, <<authenticate, UsersController_update>>)
route_users_me_delete == Route("DELETE", <<"users", "me">>, <<authenticate, UsersController_delete>>)
\* variant: lookup by username behind the token gate
route_users_username_gated == Route("GET", <<"users", ":username">>, <<authenticate, UsersController_populate, UsersController_fetch>>)
route_users_username == Route("GET", <<"users", ":username">>, <<UsersController_populate, UsersController_fetch>>)
route_posts_search == Route("GET", <<"posts">>, <<PostsController_search>>)
route_posts_create == Route("POST", <<"posts">>, <<authenticate, PostsController_create>>)
\* variant: fetch of a post without its populator
route_posts_id_fetch_unpopulated == Route("GET", <<"posts", ":id">>, <<PostsController_fetch>>)
route_posts_id_fetch == Route("GET", <<"posts", ":id">>, <<PostsController_populate, PostsController_fetch>>)
\* variant: deletion of a post without the token gate
route_posts_id_delete_open == Route("DELETE", <<"posts", ":id">>, <<PostsController_delete>>)
route_posts_id_delete == Route("DELETE", <<"posts", ":id">>, <<authenticate, PostsController_delete>>)
route_admin == Route("GET", <<"admin">>, <<accessControl("admin"), MetaController_index>>)

\* variant: the error handler registered before the routes
routes_errorHandlerFirst ==
    << Use(errorHandler),
       route_index, route_auth_login, route_users_findAll, route_users_create,
       route_users_me_fetch, route_users_me_update, route_users_me_delete,
       route_users_username, route_posts_search, route_posts_create,
       route_posts_id_fetch, route_posts_id_delete, route_admin >>

\* variant: /users/:username registered before /users/me
routes_usernameFirst ==
    << route_index, route_auth_login, route_users_findAll, route_users_create,
       route_users_username,
       route_users_me_fetch, route_users_me_update, route_users_me_delete,
       route_posts_search, route_posts_create,
       route_posts_id_fetch, route_posts_id_delete, route_admin,
       Use(errorHandler) >>

routes ==
    << route_index, route_auth_login, route_users_findAll, route_users_create,
       route_users_me_fetch, route_users_me_update, route_users_me_delete,
       route_users_username, route_posts_search, route_posts_create,
       route_posts_id_fetch, route_posts_id_delete, route_admin,
       Use(errorHandler) >>

\* ------------------------------------------------------- Router dispatch
IsParam(seg) == seg \in {":username", ":id"}

PathMatches(pattern, path) ==
    /\ Len(pattern) = Len(path)
    /\ \A i \in 1..Len(pattern) : IsParam(pattern[i]) \/ pattern[i] = path[i]

LayerMatches(l, method, path) ==
    /\ l.kind = "route"
    /\ l.method = method
    /\ PathMatches(l.path, path)

Min(S) == CHOOSE x \in S : \A y \in S : x <= y

\* index of the first layer that matches, 0 when none does
FirstMatch(method, path) ==
    LET S == {i \in 1..Len(routes) : LayerMatches(routes[i], method, path)}
    IN IF S = {} THEN 0 ELSE Min(S)

\* index of the first error-handling layer registered after layer i, 0 when none
NextErrorLayer(i) ==
    LET S == {j \in (i+1)..Len(routes) : routes[j].kind = "error"}
    IN IF S = {} THEN 0 ELSE Min(S)

\* value of the path parameter of the matched pattern
Param(pattern, path) ==
    LET S == {i \in 1..Len(pattern) : IsParam(pattern[i])}
    IN IF S = {} THEN "" ELSE path[Min(S)]

\* ------------------------------------------------------------------ state
VARIABLES users, posts, now, issued, req, ctx, phase, layer, idx, err, res, trace, store0

vars == <<users, posts, now, issued, req, ctx, phase, layer, idx, err, res, trace, store0>>

NoBody == [username |-> NoOne, role |-> "", passwordOk |-> FALSE]
NoReq == [method |-> "", path |-> <<>>, auth |-> NoToken, body |-> NoBody]
NoCtx == [currentUser |-> NoOne, populated |-> ""]

Methods == {"GET", "POST", "PUT", "DELETE"}
Paths ==
    {<<>>, <<"auth", "login">>, <<"users">>, <<"posts">>, <<"admin">>, <<"missing">>}
    \cup {<<"users", u>> : u \in Usernames \cup {"nobody"}}
    \cup {<<"posts", p>> : p \in PostIds \cup {"0"}}

\* tokens handed out by login, each with the identity it was issued for
IssuedTokens == {e.tok : e \in issued}

Tokens == {NoToken, Malformed} \cup IssuedTokens \cup {Forged(u) : u \in Usernames}

Bodies(method, path) ==
    IF method = "POST" /\ path = <<"auth", "login">>
    THEN {[username |-> u, role |-> "", passwordOk |-> ok] : u \in Usernames, ok \in BOOLEAN}
    ELSE IF method = "POST" /\ path = <<"users">>
    THEN {[username |-> u, role |-> r, passwordOk |-> FALSE] : u \in Usernames, r \in Roles}
    ELSE IF method = "PUT" /\ path = <<"users", "me">>
    THEN {[username |-> NoOne, role |-> r, passwordOk |-> FALSE] : r \in Roles}
    ELSE {NoBody}

Stores == UNION {[D -> Roles] : D \in SUBSET Usernames}

Init ==
    /\ users \in Stores
    /\ posts = << >>
    /\ now = 0
    /\ issued = {}
    /\ req = NoReq
    /\ ctx = NoCtx
    /\ phase = "idle"
    /\ layer = 0
    /\ idx = 0
    /\ err = NoErr
    /\ res = NoRes
    /\ trace = << >>
    /\ store0 = [users |-> users, posts |-> posts]

Stage == routes[layer].chain[idx]
Running(mw) == phase = "routing" /\ Stage.fn = mw.fn

\* next(): hand over to the following stage of the chain
Continue ==
    /\ idx' = idx + 1
    /\ trace' = Append(trace, Stage.fn)
    /\ UNCHANGED <<phase, layer, err, res>>

\* next(e): skip the rest of the chain, go to the next error-handling layer
Fail(e) ==
    LET el == NextErrorLayer(layer) IN
    /\ err' = e
    /\ trace' = Append(trace, Stage.fn)
    /\ IF el # 0
       THEN phase' = "error" /\ layer' = el /\ idx' = 1 /\ res' = res
       ELSE phase' = "done" /\ layer' = layer /\ idx' = idx /\ res' = 500

\* res.json(...): the response ends the request
Respond(status) ==
    /\ phase' = "done"
    /\ res' = status
    /\ trace' = Append(trace, Stage.fn)
    /\ UNCHANGED <<layer, idx, err>>

Receive ==
    /\ phase = "idle"
    /\ \E method \in Methods, path \in Paths, auth \in Tokens :
       \E body \in Bodies(method, path) :
         /\ FirstMatch(method, path) # 0 \/ method = "GET"
         /\ (method = "POST" /\ path = <<"posts">>) => Cardinality(DOMAIN posts) < MaxPosts
         /\ (method = "POST" /\ path = <<"auth", "login">>) => Cardinality(issued) < MaxTokens
         /\ req' = [method |-> method, path |-> path, auth |-> auth, body |-> body]
         /\ LET m == FirstMatch(method, path) IN
            IF m # 0
            THEN phase' = "routing" /\ layer' = m /\ idx' = 1 /\ res' = NoRes
            ELSE phase' = "done" /\ layer' = 0 /\ idx' = 0 /\ res' = 404
    /\ ctx' = NoCtx
    /\ err' = NoErr
    /\ trace' = << >>
    /\ store0' = [users |-> users, posts |-> posts]
    /\ UNCHANGED <<users, posts, now, issued>>

Authenticate ==
    /\ Running(authenticate)
    /\ LET id == verify(req.auth, now) IN
       IF req.auth = NoToken \/ id = InvalidToken \/ id \notin DOMAIN users
       THEN Fail("Unauthorized") /\ ctx' = ctx
       ELSE Continue /\ ctx' = [ctx EXCEPT !.currentUser = id]
    /\ UNCHANGED <<users, posts, now, issued, req, store0>>

AccessControl ==
    /\ Running(accessControl(""))
    /\ IF ctx.currentUser \in DOMAIN users /\ users[ctx.currentUser] = Stage.arg
       THEN Continue
       ELSE Fail("Forbidden")
    /\ UNCHANGED <<users, posts, now, issued, req, ctx, store0>>

UsersPopulate ==
    /\ Running(UsersController_populate)
    /\ LET username == Param(routes[layer].path, req.path) IN
       IF username \in DOMAIN users
       THEN Continue /\ ctx' = [ctx EXCEPT !.populated = username]
       ELSE Fail("NotFound") /\ ctx' = ctx
    /\ UNCHANGED <<users, posts, now, issued, req, store0>>

PostsPopulate ==
    /\ Running(PostsController_populate)
    /\ LET id == Param(routes[layer].path, req.path) IN
       IF id \in DOMAIN posts
       THEN Continue /\ ctx' = [ctx EXCEPT !.populated = id]
       ELSE Fail("NotFound") /\ ctx' = ctx
    /\ UNCHANGED <<users, posts, now, issued, req, store0>>

MetaIndex ==
    /\ Running(MetaController_index)
    /\ Respond(200)
    /\ UNCHANGED <<users, posts, now, issued, req, ctx, store0>>

AuthLogin ==
    /\ Running(AuthController_login)
    /\ IF req.body.username \in DOMAIN users /\ req.body.passwordOk
       THEN Respond(200) /\ issued' = issued \cup {[tok |-> issue(req.body.username, now), id |-> req.body.username]}
       ELSE Fail("Unauthorized") /\ issued' = issued
    /\ UNCHANGED <<users, posts, now, req, ctx, store0>>

UsersFindAll ==
    /\ Running(UsersController_findAll)
    /\ Respond(200)
    /\ UNCHANGED <<users, posts, now, issued, req, ctx, store0>>

UsersCreate ==
    /\ Running(UsersController_create)
    /\ IF req.body.username \in DOMAIN users
       THEN Fail("ValidationError") /\ users' = users
       ELSE Respond(201) /\ users' = (req.body.username :> req.body.role) @@ users
    /\ UNCHANGED <<posts, now, issued, req, ctx, store0>>

UsersFetch ==
    /\ Running(UsersController_fetch)
    /\ Respond(200)
    /\ UNCHANGED <<users, posts, now, issued, req, ctx, store0>>

UsersUpdate ==
    /\ Running(UsersController_update)
    /\ IF ctx.currentUser \in DOMAIN users
       THEN Respond(200) /\ users' = [users EXCEPT ![ctx.currentUser] = req.body.role]
       ELSE Fail("InternalError") /\ users' = users
    /\ UNCHANGED <<posts, now, issued, req, ctx, store0>>

UsersDelete ==
    /\ Running(UsersController_delete)
    /\ IF ctx.currentUser \in DOMAIN users
       THEN Respond(204) /\ users' = [u \in DOMAIN users \ {ctx.currentUser} |-> users[u]]
       ELSE Fail("InternalError") /\ users' = users
    /\ UNCHANGED <<posts, now, issued, req, ctx, store0>>

PostsSearch ==
    /\ Running(PostsController_search)
    /\ Respond(200)
    /\ UNCHANGED <<users, posts, now, issued, req, ctx, store0>>

PostsCreate ==
    /\ Running(PostsController_create)
    /\ LET free == {n \in 1..MaxPosts : ToString(n) \notin DOMAIN posts} IN
       IF ctx.currentUser \in DOMAIN users /\ free # {}
       THEN Respond(201) /\ posts' = (ToString(Min(free)) :> ctx.currentUser) @@ posts
       ELSE Fail("InternalError") /\ posts' = posts
    /\ UNCHANGED <<users, now, issued, req, ctx, store0>>

PostsFetch ==
    /\ Running(PostsController_fetch)
    /\ Respond(200)
    /\ UNCHANGED <<users, posts, now, issued, req, ctx, store0>>

PostsDelete ==
    /\ Running(PostsController_delete)
    /\ LET id == Param(routes[layer].path, req.path) IN
       IF id \in DOMAIN posts
       THEN Respond(204) /\ posts' = [p \in DOMAIN posts \ {id} |-> posts[p]]
       ELSE Fail("NotFound") /\ posts' = posts
    /\ UNCHANGED <<users, now, issued, req, ctx, store0>>

Status(e) ==
    CASE e = "Unauthorized" -> 401
      [] e = "Forbidden" -> 403
      [] e = "NotFound" -> 404
      [] e = "ValidationError" -> 400
      [] OTHER -> 500

ErrorHandler ==
    /\ phase = "error"
    /\ Stage.fn = errorHandler.fn
    /\ phase' = "done"
    /\ res' = Status(err)
    /\ trace' = Append(trace, Stage.fn)
    /\ UNCHANGED <<users, posts, now, issued, req, ctx, layer, idx, err, store0>>

Finish ==
    /\ phase = "done"
    /\ phase' = "idle"
    /\ req' = NoReq
    /\ ctx' = NoCtx
    /\ layer' = 0
    /\ idx' = 0
    /\ err' = NoErr
    /\ res' = NoRes
    /\ trace' = << >>
    /\ store0' = [users |-> users, posts |-> posts]
    /\ UNCHANGED <<users, posts, now, issued>>

Tick ==
    /\ phase = "idle"
    /\ now < MaxTime
    /\ now' = now + 1
    /\ UNCHANGED <<users, posts, issued, req, ctx, phase, layer, idx, err, res, trace, store0>>

Next ==
    \/ Receive
    \/ Authenticate
    \/ AccessControl
    \/ UsersPopulate
    \/ PostsPopulate
    \/ MetaIndex
    \/ AuthLogin
    \/ UsersFindAll
    \/ UsersCreate
    \/ UsersFetch
    \/ UsersUpdate
    \/ UsersDelete
    \/ PostsSearch
    \/ PostsCreate
    \/ PostsFetch
    \/ PostsDelete
    \/ ErrorHandler
    \/ Finish
    \/ Tick

Spec == Init /\ [][Next]_vars

TypeOK ==
    /\ phase \in {"idle", "routing", "error", "done"}
    /\ now \in 0..MaxTime
    /\ DOMAIN users \subseteq Usernames
    /\ DOMAIN posts \subseteq PostIds

\* ---------------------------------------------------- vocabulary of claims
InFlight == phase # "idle"
Done == phase = "done"
Ran(mw) == \E i \in 1..Len(trace) : trace[i] = mw.fn
IsReq(method, path) == req.method = method /\ req.path = path
BadToken == verify(req.auth, now) = InvalidToken
StoreUnchanged == users = store0.users /\ posts = store0.posts
IsPostsId == Len(req.path) = 2 /\ req.path[1] = "posts"
IsUsersUsername == Len(req.path) = 2 /\ req.path[1] = "users" /\ req.path[2] # "me"

\* the five token-protected routes of the users/posts groups
ProtectedReq ==
    \/ req.method \in {"GET", "PUT", "DELETE"} /\ req.path = <<"users", "me">>
    \/ IsReq("POST", <<"posts">>)
    \/ req.method = "DELETE" /\ IsPostsId

ProtectedHandlerRan ==
    \/ Ran(UsersController_fetch)
    \/ Ran(UsersController_update)
    \/ Ran(UsersController_delete)
    \/ Ran(PostsController_create)
    \/ Ran(PostsController_delete)

\* C1: a request to GET/PUT/DELETE /users/me, POST /posts or DELETE /posts/:id
\* whose bearer token is absent or fails verification ends in Unauthorized
\* (401), never runs the route's handler and leaves the store as it was.
C1_UnauthorizedNoSideEffects ==
    (InFlight /\ ProtectedReq /\ BadToken) =>
        /\ ~ProtectedHandlerRan
        /\ StoreUnchanged
        /\ (err # NoErr => err = "Unauthorized")
        /\ (Done => res = 401)

C1_Witness ==
    /\ Done
    /\ req.method = "DELETE" /\ IsPostsId /\ req.path[2] \in DOMAIN posts
    /\ req.auth = Forged(posts[req.path[2]])
    /\ res = 401

\* C2: on GET /admin the role check runs only once authenticate has attached
\* an identity; without a valid token the request ends in Unauthorized and
\* neither the role check nor MetaController.index runs without an identity.
C2_AdminAuthenticatesFirst ==
    (InFlight /\ IsReq("GET", <<"admin">>)) =>
        /\ (Ran(accessControl("admin")) => Ran(authenticate) /\ ctx.currentUser # NoOne)
        /\ (Ran(MetaController_index) => ctx.currentUser # NoOne)
        /\ (Done /\ BadToken => res = 401)

\* C3: on GET /admin with a valid token, role "user" ends in Forbidden without
\* MetaController.index, role "admin" reaches MetaController.index; the gate
\* changes neither the request context nor the store.
C3_RoleGate ==
    (Done /\ IsReq("GET", <<"admin">>) /\ ~BadToken /\ req.auth.sub \in DOMAIN store0.users) =>
        /\ (store0.users[req.auth.sub] = "user" => res = 403 /\ ~Ran(MetaController_index))
        /\ (store0.users[req.auth.sub] = "admin" => res = 200 /\ Ran(MetaController_index))
        /\ StoreUnchanged

\* C4: GET /users/:username or GET /posts/:id whose parameter names no stored
\* entity fails with NotFound (404) in the populator: the fetch handler never
\* runs and the store is unchanged.  (/users/me belongs to the earlier route.)
C4_PopulatorMiss ==
    LET miss == \/ req.method = "GET" /\ IsUsersUsername /\ req.path[2] \notin DOMAIN store0.users
                \/ req.method = "GET" /\ IsPostsId /\ req.path[2] \notin DOMAIN store0.posts
    IN (InFlight /\ miss) =>
        /\ ~Ran(UsersController_fetch)
        /\ ~Ran(PostsController_fetch)
        /\ StoreUnchanged
        /\ (err # NoErr => err = "NotFound")
        /\ (Done => res = 404 /\ err = "NotFound")

C4_Witness ==
    /\ Done
    /\ IsReq("GET", <<"posts", "0">>)
    /\ "1" \in DOMAIN posts
    /\ res = 404
    /\ trace = <<PostsController_populate.fn, errorHandler.fn>>

\* C5: the stages of the matched route run in their configured order, one at
\* a time; once a stage fails no later stage of the chain runs and the next
\* step is the terminal error handler, from whichever route the failure came.
C5_SequentialShortCircuit ==
    (InFlight /\ FirstMatch(req.method, req.path) # 0) =>
        LET chain == routes[FirstMatch(req.method, req.path)].chain
            n == Len(trace)
            k == IF err # NoErr /\ Done THEN n - 1 ELSE n
        IN /\ k <= Len(chain)
           /\ \A i \in 1..k : trace[i] = chain[i].fn
           /\ (phase = "routing" => err = NoErr /\ idx = n + 1)
           /\ (err # NoErr => phase \in {"error", "done"})
           /\ (phase = "error" => Stage = errorHandler /\ k >= 1)
           /\ (err # NoErr /\ Done => k >= 1 /\ trace[n] = errorHandler.fn)
           /\ (err = NoErr => ~Ran(errorHandler))

C5_Witness ==
    /\ Done
    /\ IsReq("POST", <<"users">>)
    /\ err = "ValidationError"
    /\ trace = <<authenticate.fn, UsersController_create.fn, errorHandler.fn>>

PublicReq ==
    \/ IsReq("GET", <<>>)
    \/ IsReq("POST", <<"auth", "login">>)
    \/ IsReq("GET", <<"users">>)
    \/ req.method = "GET" /\ IsUsersUsername
    \/ IsReq("GET", <<"posts">>)
    \/ req.method = "GET" /\ IsPostsId

PublicFirstStage ==
    IF IsReq("GET", <<>>) THEN MetaController_index
    ELSE IF IsReq("POST", <<"auth", "login">>) THEN AuthController_login
    ELSE IF IsReq("GET", <<"users">>) THEN UsersController_findAll
    ELSE IF IsReq("GET", <<"posts">>) THEN PostsController_search
    ELSE IF IsPostsId THEN PostsController_populate
    ELSE UsersController_populate

C8_CreateUserRequiresToken ==
    (InFlight /\ IsReq("POST", <<"users">>) /\ BadToken) =>
        /\ ~Ran(UsersController_create)
        /\ users = store0.users
        /\ (Done => res = 401 /\ err = "Unauthorized")

C8_Witness ==
    /\ Done
    /\ IsReq("POST", <<"users">>)
    /\ req.auth = NoToken
    /\ req.body.username \notin DOMAIN users
    /\ res = 401

\* C9: whenever the handler of GET /users/:username, GET /posts/:id or
\* DELETE /posts/:id runs, the request context already carries the entity
\* named by the path parameter, attached by the populator of the same chain.
C9_HandlerSeesPopulatedEntity ==
    /\ (req.method = "GET" /\ IsUsersUsername /\ Ran(UsersController_fetch)) =>
           Ran(UsersController_populate) /\ ctx.populated = req.path[2]
    /\ (req.method = "GET" /\ IsPostsId /\ Ran(PostsController_fetch)) =>
           Ran(PostsController_populate) /\ ctx.populated = req.path[2]
    /\ (req.method = "DELETE" /\ IsPostsId /\ Ran(PostsController_delete)) =>
           Ran(PostsController_populate) /\ ctx.populated = req.path[2]

\* C10: GET /users/me is always dispatched to authenticate ->
\* UsersController.fetch and never to the populator chain of
\* /users/:username; without a valid token it ends in 401 through the error
\* handler even when a user named "me" is stored.
C10_UsersMePrecedence ==
    (InFlight /\ IsReq("GET", <<"users", "me">>)) =>
        /\ ~Ran(UsersController_populate)
        /\ ctx.populated = ""
        /\ (phase = "routing" => routes[layer] = route_users_me_fetch)
        /\ (trace # << >> => trace[1] = authenticate.fn)
        /\ (Done /\ BadToken => res = 401 /\ trace = <<authenticate.fn, errorHandler.fn>>)

C10_Witness ==
    /\ Done
    /\ IsReq("GET", <<"users", "me">>)
    /\ "me" \in DOMAIN users
    /\ req.auth = NoToken
    /\ res = 401
====
